---- MODULE Spec2Model ----
(***************************************************************************)
(* The in-memory job queue (MemoryQueueService) and the cron-driven        *)
(* processing pass (CronService.processQueue) of the NestJS boilerplate.   *)
(*                                                                         *)
(* JavaScript runs one continuation at a time: every action below is the   *)
(* code between two suspension points (await) of one async call.           *)
(***************************************************************************)
EXTENDS Integers, Sequences, FiniteSets, TLC

\* ------------------------------------------------------------- bounds
MaxPasses == 2      \* processQueue invocations that can be alive at once
MaxProducers == 2   \* addJob calls that can be in flight at once
MaxQueue == 2       \* addJob is not called when the queue is this long
MaxRetries == 1     \* retries argument of addJob ranges over 0..MaxRetries
MaxDelay == 1       \* delay argument of addJob ranges over 0..MaxDelay
MaxTime == 1        \* Date.now() ranges over 0..MaxTime
MaxFailPasses == 5  \* passes run by the all-dispatches-fail scenario
MaxRaceRetries == 2 \* retries argument of addJob where producers race one pass
MaxAdds == 3        \* addJob calls made before the producers stop
MaxTwinPasses == 2  \* passes of a run that is replayed on other delay values
MaxText == 4        \* characters of a text that is encoded into a header
MaxUsername == 2    \* characters of a username given to the encoder
MaxPassword == 3    \* characters of a password given to the encoder

\* ------------------------------------------------- program constants
DefaultRetries == 3   \* addJob(..., retries: number = 3, ...)
DefaultDelay == 0     \* addJob(..., delay: number = 0)
ETA_LIDER_TASK == "etaLiderTask"
OtherTask == "otherTask"   \* a queue name outside QueueNames (any string)

Passes == 1..MaxPasses
Producers == 1..MaxProducers

\* PlatformType and the process discriminator; one MAC address is enough
\* to tell jobs apart through process and target domain.
JobDatas ==
  { [process |-> "GET", targetRequestDomain |-> "ETA",
     data |-> [macAddress |-> "AA"]],
    [process |-> "UPDATE", targetRequestDomain |-> "LIDER",
     data |-> [macAddress |-> "AA"]] }

\* Payloads for which generateJobId throws: `data` is missing (TypeError on
\* jobData.data.macAddress), or a value is a BigInt (JSON.stringify throws).
BigInt == "1n"
BadJobDatas ==
  { [process |-> "GET", targetRequestDomain |-> "ETA"],
    [process |-> "GET", targetRequestDomain |-> "ETA",
     data |-> [macAddress |-> BigInt]] }

NoJob == [id |-> ""]
NoCall == [queueName |-> "", job |-> NoJob]
NoId == ""
NoRet == [op |-> "none", kind |-> "none", jobs |-> <<>>]
NoArg == [fn |-> "none"]
NoOut == [kind |-> "none"]
NoTwin == [phase |-> 0]

VARIABLES
  queues,      \* MemoryQueueService.queues: queue name -> sequence of jobs
  pc,          \* per processQueue invocation: the await it is suspended at;
               \* "idle": not running (never ran, or returned); "threw": not
               \* running, its last run ended with an exception
  index,       \* per invocation: the loop variable `index` (0-based)
  disp,        \* per invocation: the job whose data was handed to the dispatch
  jobId,       \* per invocation: the jobId argument of the pending dequeueJob
  apc,         \* per addJob call: "idle" or "hasJob" (awaiting hasJob)
  acall,       \* per addJob call: its queue name and the job createJob built
  aexists,     \* per addJob call: what hasJob answered
  snap,        \* history: ids in the queue when the running pass read its length
  visited,     \* history: ids the running pass dispatched, in order
  retained,    \* history: some dispatch of the running pass failed with retries > 0
  passesDone,  \* history: passes completed
  addsDone,    \* history: addJob calls made
  ret,         \* what the last direct call of a store method returned
  arg,         \* the arguments of a function called on its own
  out,         \* what that function returned or threw
  twin         \* the record of a run, replayed on other delay values

vars == <<queues, pc, index, disp, jobId, apc, acall, aexists,
          snap, visited, retained, passesDone, addsDone, ret, arg, out, twin>>
passVars == <<pc, index, disp, jobId>>
addVars == <<apc, acall, aexists>>
funcVars == <<arg, out>>
histVars == <<snap, visited, retained, passesDone, addsDone, ret, funcVars, twin>>

\* ------------------------------------------------ MemoryQueueService
\* A JavaScript object is its properties in insertion order: a payload may
\* carry that order in propertyOrder; without it the order is the one of the
\* JobData interface, with the optional key last.
PropertyOrder(jobData) ==
  IF "propertyOrder" \in DOMAIN jobData THEN jobData.propertyOrder
  ELSE IF "key" \in DOMAIN jobData
  THEN <<"data", "targetRequestDomain", "process", "key">>
  ELSE <<"data", "targetRequestDomain", "process">>

Quote(text) == "\"" \o text \o "\""

JSONData(data) ==
  "{" \o Quote("macAddress") \o ":" \o Quote(data.macAddress)
      \o (IF "schoolName" \in DOMAIN data
          THEN "," \o Quote("schoolName") \o ":" \o Quote(data.schoolName)
          ELSE "")
      \o "}"

JSONProperty(jobData, k) ==
  Quote(k) \o ":" \o (IF k = "data" THEN JSONData(jobData.data) ELSE Quote(jobData[k]))

RECURSIVE JSONProperties(_, _)
JSONProperties(jobData, keys) ==
  IF keys = <<>> THEN ""
  ELSE JSONProperty(jobData, Head(keys))
         \o (IF Len(keys) > 1 THEN "," ELSE "")
         \o JSONProperties(jobData, Tail(keys))

\* JSON.stringify: the properties in insertion order.
JSONStringify(jobData) ==
  "{" \o JSONProperties(jobData, PropertyOrder(jobData)) \o "}"

\* sha256 is taken to be collision free: the digest determines its input.
SHA256(text) == "sha256(" \o text \o ")"

JSONStringifyThrows(jobData) ==
  "data" \in DOMAIN jobData /\ jobData.data.macAddress = BigInt

GenerateJobIdThrows(jobData) ==
  "data" \notin DOMAIN jobData \/ JSONStringifyThrows(jobData)

\* Mutant: the id is built without the digest.
GenerateJobIdNoHash(queueName, jobData) ==
  queueName \o "-" \o jobData.process \o "-" \o jobData.targetRequestDomain
    \o "-" \o jobData.data.macAddress

\* `${queueName}-${process}-${targetRequestDomain}-${macAddress}-${hash}`
GenerateJobId(queueName, jobData) ==
  queueName \o "-" \o jobData.process \o "-" \o jobData.targetRequestDomain
    \o "-" \o jobData.data.macAddress \o "-" \o SHA256(JSONStringify(jobData))

CreateJob(queueName, jobData, retries, delay, now) ==
  [id |-> GenerateJobId(queueName, jobData), data |-> jobData,
   retries |-> retries, delay |-> delay, timestamp |-> now]

\* getQueue: the store after the call (the queue is created when absent).
GetQueue(qs, queueName) ==
  IF queueName \in DOMAIN qs THEN qs
  ELSE [n \in DOMAIN qs \cup {queueName} |->
          IF n = queueName THEN <<>> ELSE qs[n]]

\* Array.prototype.findIndex, 1-based; 0 stands for JavaScript's -1.
FindIndex(queue, id) ==
  IF \E i \in 1..Len(queue) : queue[i].id = id
  THEN CHOOSE i \in 1..Len(queue) :
         /\ queue[i].id = id
         /\ \A j \in 1..(i - 1) : queue[j].id # id
  ELSE 0

HasJob(qs, queueName, id) ==
  \E i \in 1..Len(GetQueue(qs, queueName)[queueName]) :
     GetQueue(qs, queueName)[queueName][i].id = id

\* Mutant: queue.splice(i, 0) removes nothing.
SpliceZero(queue, i) == queue

\* queue.splice(i, 1), 1-based.
Splice(queue, i) ==
  [k \in 1..(Len(queue) - 1) |-> IF k < i THEN queue[k] ELSE queue[k + 1]]

\* Mutant: the head is removed whatever the id (queue.shift()).
DequeueJobShift(qs, queueName, id) ==
  LET qs1 == GetQueue(qs, queueName)
  IN IF Len(qs1[queueName]) > 0
     THEN [qs1 EXCEPT ![queueName] = Splice(@, 1)] ELSE qs1

\* Mutant: the job is left in place when it is found (the test is inverted).
DequeueJobKeep(qs, queueName, id) == GetQueue(qs, queueName)

\* Mutant: the last job is removed whatever the id (queue.pop()).
DequeueJobPop(qs, queueName, id) ==
  LET qs1 == GetQueue(qs, queueName)
  IN IF Len(qs1[queueName]) > 0
     THEN [qs1 EXCEPT ![queueName] = SubSeq(@, 1, Len(@) - 1)] ELSE qs1

\* Mutant: the queue is emptied when the job is found.
DequeueJobClear(qs, queueName, id) ==
  LET qs1 == GetQueue(qs, queueName)
      i == FindIndex(qs1[queueName], id)
  IN IF i # 0 THEN [qs1 EXCEPT ![queueName] = <<>>] ELSE qs1

\* Mutant: the entry of a queue that becomes empty is deleted from the map.
DequeueJobDelete(qs, queueName, id) ==
  LET qs1 == GetQueue(qs, queueName)
      i == FindIndex(qs1[queueName], id)
  IN IF i = 0 THEN qs1
     ELSE IF Len(qs1[queueName]) = 1
     THEN [n \in DOMAIN qs1 \ {queueName} |-> qs1[n]]
     ELSE [qs1 EXCEPT ![queueName] = Splice(@, i)]

DequeueJob(qs, queueName, id) ==
  LET qs1 == GetQueue(qs, queueName)
      i == FindIndex(qs1[queueName], id)
  IN IF i # 0 THEN [qs1 EXCEPT ![queueName] = Splice(@, i)] ELSE qs1

\* Mutant: the job is replaced by the fields given.
MergeReplace(job, updatedJobData) == updatedJobData

\* { ...job, ...updatedJobData }
Merge(job, updatedJobData) ==
  [f \in DOMAIN job \cup DOMAIN updatedJobData |->
     IF f \in DOMAIN updatedJobData THEN updatedJobData[f] ELSE job[f]]

\* Mutant: the updated job is taken out and pushed back at the tail.
UpdateJobRequeue(qs, queueName, id, updatedJobData) ==
  LET qs1 == GetQueue(qs, queueName)
      i == FindIndex(qs1[queueName], id)
  IN IF i = 0 THEN qs1
     ELSE [qs1 EXCEPT ![queueName] =
             Append(Splice(@, i), Merge(qs1[queueName][i], updatedJobData))]

\* Mutant: the job at the index found is merged in every queue.
UpdateJobEveryQueue(qs, queueName, id, updatedJobData) ==
  LET qs1 == GetQueue(qs, queueName)
      i == FindIndex(qs1[queueName], id)
  IN IF i = 0 THEN qs1
     ELSE [n \in DOMAIN qs1 |->
             IF i <= Len(qs1[n])
             THEN [qs1[n] EXCEPT ![i] = Merge(@, updatedJobData)]
             ELSE qs1[n]]

UpdateJob(qs, queueName, id, updatedJobData) ==
  LET qs1 == GetQueue(qs, queueName)
      i == FindIndex(qs1[queueName], id)
  IN IF i = 0 THEN qs1
     ELSE [qs1 EXCEPT ![queueName][i] = Merge(@, updatedJobData)]

UpdateJobReturns(qs, queueName, id) ==
  FindIndex(GetQueue(qs, queueName)[queueName], id) # 0

\* Mutant: the job at the tail is returned.
GetNextJobLast(qs, queueName) ==
  LET queue == GetQueue(qs, queueName)[queueName]
  IN IF Len(queue) = 0 THEN <<>> ELSE <<queue[Len(queue)]>>

GetNextJob(qs, queueName) ==
  LET queue == GetQueue(qs, queueName)[queueName]
  IN IF Len(queue) = 0 THEN <<>> ELSE <<queue[1]>>

\* The queue of the well-known name, empty when it was never referenced.
Queue == IF ETA_LIDER_TASK \in DOMAIN queues THEN queues[ETA_LIDER_TASK] ELSE <<>>

Ids(queue) == [i \in 1..Len(queue) |-> queue[i].id]

\* --------------------------------------------------------------- Init
Init ==
  /\ queues = [n \in {} |-> <<>>]
  /\ pc = [p \in Passes |-> "idle"]
  /\ index = [p \in Passes |-> 0]
  /\ disp = [p \in Passes |-> NoJob]
  /\ jobId = [p \in Passes |-> NoId]
  /\ apc = [a \in Producers |-> "idle"]
  /\ acall = [a \in Producers |-> NoCall]
  /\ aexists = [a \in Producers |-> FALSE]
  /\ snap = <<>>
  /\ visited = <<>>
  /\ retained = FALSE
  /\ passesDone = 0
  /\ addsDone = 0
  /\ ret = NoRet
  /\ arg = NoArg
  /\ out = NoOut
  /\ twin = NoTwin

Active(p) == pc[p] \notin {"idle", "threw"}
NoPassActive == \A p \in Passes : ~Active(p)
NoAddPending == \A a \in Producers : apc[a] = "idle"

\* A timer callback is a macrotask: it runs only when no continuation of a
\* resolved promise is waiting. An invocation awaiting its dispatch waits for
\* the external operation, not for a microtask.
NoMicrotaskPending ==
  /\ \A p \in Passes : pc[p] \in {"idle", "threw", "dispatch"}
  /\ NoAddPending

\* ------------------------------------------------------------- addJob
\* addJob up to `await this.hasJob(...)`: createJob, getQueue, and the body
\* of hasJob, which runs (queue.some) before addJob suspends.
AddJobCall(a, queueName, jobData, retries, delay, now) ==
  LET job == CreateJob(queueName, jobData, retries, delay, now) IN
  /\ apc[a] = "idle"
  /\ \A b \in Producers : b < a => apc[b] # "idle"
  /\ Len(GetQueue(queues, queueName)[queueName]) < MaxQueue
  /\ queues' = GetQueue(queues, queueName)
  /\ aexists' = [aexists EXCEPT ![a] = HasJob(queues, queueName, job.id)]
  /\ acall' = [acall EXCEPT ![a] = [queueName |-> queueName, job |-> job]]
  /\ apc' = [apc EXCEPT ![a] = "hasJob"]
  /\ UNCHANGED passVars

\* Mutant: the job is pushed with no retries left.
AddJobResumeNoRetries(a) ==
  /\ apc[a] = "hasJob"
  /\ queues' = IF aexists[a] THEN queues
               ELSE [queues EXCEPT ![acall[a].queueName] =
                       Append(@, [acall[a].job EXCEPT !.retries = 0])]
  /\ apc' = [apc EXCEPT ![a] = "idle"]
  /\ acall' = [acall EXCEPT ![a] = NoCall]
  /\ aexists' = [aexists EXCEPT ![a] = FALSE]
  /\ UNCHANGED passVars

\* Mutant: the early return on a duplicate is missing.
AddJobResumeAlwaysPush(a) ==
  /\ apc[a] = "hasJob"
  /\ queues' = [queues EXCEPT ![acall[a].queueName] = Append(@, acall[a].job)]
  /\ apc' = [apc EXCEPT ![a] = "idle"]
  /\ acall' = [acall EXCEPT ![a] = NoCall]
  /\ aexists' = [aexists EXCEPT ![a] = FALSE]
  /\ UNCHANGED passVars

\* addJob after the await: return on a duplicate, queue.push(job) otherwise.
AddJobResume(a) ==
  /\ apc[a] = "hasJob"
  /\ queues' = IF aexists[a] THEN queues
               ELSE [queues EXCEPT ![acall[a].queueName] = Append(@, acall[a].job)]
  /\ apc' = [apc EXCEPT ![a] = "idle"]
  /\ acall' = [acall EXCEPT ![a] = NoCall]
  /\ aexists' = [aexists EXCEPT ![a] = FALSE]
  /\ UNCHANGED passVars

\* ------------------------------------------------------- processQueue
\* processQueue ends: its promise resolves (how = "idle") or rejects
\* (how = "threw").
Return(p, how) ==
  /\ pc' = [pc EXCEPT ![p] = how]
  /\ index' = [index EXCEPT ![p] = 0]
  /\ disp' = [disp EXCEPT ![p] = NoJob]
  /\ jobId' = [jobId EXCEPT ![p] = NoId]

\* Mutant: the loop stops at a job whose delay is not 0.
ForLoopHonoursDelay(p, idx) ==
  IF idx < Len(Queue) /\ Queue[idx + 1].delay = 0
  THEN /\ pc' = [pc EXCEPT ![p] = "dispatch"]
       /\ index' = [index EXCEPT ![p] = idx]
       /\ disp' = [disp EXCEPT ![p] = Queue[idx + 1]]
       /\ UNCHANGED jobId
  ELSE Return(p, "idle")

\* The loop condition `index < queue.length` on the live array, and, when it
\* holds, the try block up to the awaited external operation, which is handed
\* the data of queue[index].
ForLoop(p, idx) ==
  IF idx < Len(Queue)
  THEN /\ pc' = [pc EXCEPT ![p] = "dispatch"]
       /\ index' = [index EXCEPT ![p] = idx]
       /\ disp' = [disp EXCEPT ![p] = Queue[idx + 1]]
       /\ UNCHANGED jobId
  ELSE Return(p, "idle")

\* The cron callback: processQueue up to `await this.queueService.getQueue`.
\* Nothing in the callback or in processQueue looks at a pass in progress.
Trigger(p) ==
  /\ ~Active(p)
  /\ \A q \in Passes : q < p => Active(q)
  /\ NoMicrotaskPending
  /\ queues' = GetQueue(queues, ETA_LIDER_TASK)
  /\ pc' = [pc EXCEPT ![p] = "getQueue"]
  /\ UNCHANGED <<index, disp, jobId, addVars>>

\* Mutant: queue[0] is read without a test of the length; on an empty queue
\* the TypeError ends the pass.
ProcessQueueStartNoLengthTest(p) ==
  /\ pc[p] = "getQueue"
  /\ IF Len(Queue) = 0 THEN Return(p, "threw") ELSE ForLoop(p, 0)
  /\ UNCHANGED <<queues, addVars>>

\* Mutant: the loop starts at index 1.
ProcessQueueStartAtOne(p) ==
  /\ pc[p] = "getQueue"
  /\ IF Len(Queue) = 0 THEN Return(p, "idle") ELSE ForLoop(p, 1)
  /\ UNCHANGED <<queues, addVars>>

\* After the first await: the empty check, then the first iteration.
ProcessQueueStart(p) ==
  /\ pc[p] = "getQueue"
  /\ IF Len(Queue) = 0 THEN Return(p, "idle") ELSE ForLoop(p, 0)
  /\ UNCHANGED <<queues, addVars>>

\* Mutant: dequeueJob is not awaited and the loop goes on at once.
DispatchOkNotAwaited(p) ==
  /\ pc[p] = "dispatch"
  /\ IF index[p] < Len(Queue)
     THEN ForLoop(p, index[p] + 1)
     ELSE Return(p, "threw")
  /\ UNCHANGED <<queues, addVars>>

\* Mutant: dequeueJob is given the id of the last job of the queue.
DispatchOkLastId(p) ==
  /\ pc[p] = "dispatch"
  /\ IF index[p] < Len(Queue)
     THEN /\ jobId' = [jobId EXCEPT ![p] = Queue[Len(Queue)].id]
          /\ pc' = [pc EXCEPT ![p] = "dequeueOk"]
          /\ UNCHANGED <<index, disp>>
     ELSE Return(p, "threw")
  /\ UNCHANGED <<queues, addVars>>

\* The external operation resolved. `queue[index].id` is evaluated now, on
\* the live array; when there is no such element the TypeError is caught at
\* line 87 and the catch block throws it again at line 90.
DispatchOk(p) ==
  /\ pc[p] = "dispatch"
  /\ IF index[p] < Len(Queue)
     THEN /\ jobId' = [jobId EXCEPT ![p] = Queue[index[p] + 1].id]
          /\ pc' = [pc EXCEPT ![p] = "dequeueOk"]
          /\ UNCHANGED <<index, disp>>
     ELSE Return(p, "threw")
  /\ UNCHANGED <<queues, addVars>>

\* dequeueJob after its `await this.getQueue(...)`: findIndex and splice.
DequeueJobBody(p) ==
  /\ pc[p] \in {"dequeueOk", "dequeueFail"}
  /\ queues' = DequeueJob(queues, ETA_LIDER_TASK, jobId[p])
  /\ pc' = [pc EXCEPT ![p] = IF pc[p] = "dequeueOk" THEN "dequeuedOk" ELSE "dequeuedFail"]
  /\ UNCHANGED <<index, disp, jobId, addVars>>

\* Lines 84-86 and the next iteration: the log reads queue[index].id after
\* the splice; past the end it throws, and the catch block throws again.
AfterDequeueOk(p) ==
  /\ pc[p] = "dequeuedOk"
  /\ IF index[p] < Len(Queue)
     THEN ForLoop(p, index[p] + 1)
     ELSE Return(p, "threw")
  /\ UNCHANGED <<queues, addVars>>

\* Mutant: a failure with retries left leaves the retries as they are.
DispatchFailNoDecrement(p) ==
  /\ pc[p] = "dispatch"
  /\ IF index[p] >= Len(Queue)
     THEN /\ Return(p, "threw")
          /\ UNCHANGED queues
     ELSE IF Queue[index[p] + 1].retries > 0
     THEN /\ pc' = [pc EXCEPT ![p] = "updated"]
          /\ UNCHANGED <<queues, index, disp, jobId>>
     ELSE /\ jobId' = [jobId EXCEPT ![p] = Queue[index[p] + 1].id]
          /\ pc' = [pc EXCEPT ![p] = "dequeueFail"]
          /\ UNCHANGED <<queues, index, disp>>
  /\ UNCHANGED addVars

\* Mutant: the catch block lowers the retries without testing them.
DispatchFailNoTest(p) ==
  /\ pc[p] = "dispatch"
  /\ IF index[p] >= Len(Queue)
     THEN /\ Return(p, "threw")
          /\ UNCHANGED queues
     ELSE /\ queues' =
               UpdateJob([queues EXCEPT ![ETA_LIDER_TASK][index[p] + 1].retries = @ - 1],
                         ETA_LIDER_TASK, Queue[index[p] + 1].id,
                         [retries |-> Queue[index[p] + 1].retries - 1])
          /\ pc' = [pc EXCEPT ![p] = "updated"]
          /\ UNCHANGED <<index, disp, jobId>>
  /\ UNCHANGED addVars

\* The external operation rejected: the catch block up to its await.
\* retries > 0: queue[index].retries--, then updateJob (no await inside it).
\* otherwise: dequeueJob up to its await.
DispatchFail(p) ==
  /\ pc[p] = "dispatch"
  /\ IF index[p] >= Len(Queue)
     THEN /\ Return(p, "threw")
          /\ UNCHANGED queues
     ELSE IF Queue[index[p] + 1].retries > 0
     THEN /\ queues' =
               UpdateJob([queues EXCEPT ![ETA_LIDER_TASK][index[p] + 1].retries = @ - 1],
                         ETA_LIDER_TASK, Queue[index[p] + 1].id,
                         [retries |-> Queue[index[p] + 1].retries - 1])
          /\ pc' = [pc EXCEPT ![p] = "updated"]
          /\ UNCHANGED <<index, disp, jobId>>
     ELSE /\ jobId' = [jobId EXCEPT ![p] = Queue[index[p] + 1].id]
          /\ pc' = [pc EXCEPT ![p] = "dequeueFail"]
          /\ UNCHANGED <<queues, index, disp>>
  /\ UNCHANGED addVars

\* Lines 95-97 and the next iteration: the log reads queue[index].retries
\* inside the catch block.
AfterUpdate(p) ==
  /\ pc[p] = "updated"
  /\ IF index[p] < Len(Queue)
     THEN ForLoop(p, index[p] + 1)
     ELSE Return(p, "threw")
  /\ UNCHANGED <<queues, addVars>>

\* After the dequeueJob of the catch block nothing reads queue[index].
AfterDequeueFail(p) ==
  /\ pc[p] = "dequeuedFail"
  /\ ForLoop(p, index[p] + 1)
  /\ UNCHANGED <<queues, addVars>>

\* PlatformType.ETA: the enum is imported from the etaRegister module; only
\* equality with this member decides the route.
PlatformTypeETA == "ETA"

\* Mutant: the target domain is tested before the process.
RouteDomainFirst(job) ==
  IF job.data.targetRequestDomain = PlatformTypeETA
  THEN <<[op |-> "updateEtaSchoolInfoByMacAddress", args |-> <<job.data.data>>]>>
  ELSE IF job.data.process = "GET"
  THEN <<[op |-> "getSchoolByMacAddress",
          args |-> <<job.data.data.macAddress, job.data.targetRequestDomain>>]>>
  ELSE <<[op |-> "updateLiderSchoolByMacAddress", args |-> <<job.data.data>>]>>

\* Lines 66-81: the calls of the external service made for one job, in order.
Route(job) ==
  IF job.data.process = "GET"
  THEN <<[op |-> "getSchoolByMacAddress",
          args |-> <<job.data.data.macAddress, job.data.targetRequestDomain>>]>>
  ELSE IF job.data.targetRequestDomain = PlatformTypeETA
  THEN <<[op |-> "updateEtaSchoolInfoByMacAddress", args |-> <<job.data.data>>]>>
  ELSE <<[op |-> "updateLiderSchoolByMacAddress", args |-> <<job.data.data>>]>>

\* What the three outcome messages of the logger carry, each evaluated on the
\* live array at the moment it is written.
\* Lines 84-86, after the awaited dequeueJob: `... removed job: ${queue[index].id}`.
SuccessLog(p) == [outcome |-> "success", jobId |-> Queue[index[p] + 1].id]

\* Lines 95-97, after the awaited updateJob: `... Remaining retries:
\* ${queue[index].retries}`; the message carries no id.
RetryLog(p) == [outcome |-> "retry", retries |-> Queue[index[p] + 1].retries]

\* Lines 99-101, before dequeueJob: `Max retries reached, removing job:
\* ${queue[index].id}`.
DroppedLog(p) == [outcome |-> "dropped", jobId |-> Queue[index[p] + 1].id]

\* ------------------------------------------------------ specification
\* Producers and cron triggers in any interleaving: addJob calls race with
\* each other and with passes, and a trigger may fire during a pass.
\* No code reads delay or timestamp, so here every call passes the default
\* delay and the clock stands still; SpecSeq varies both.
AddJob ==
  \E a \in Producers, jobData \in JobDatas, retries \in 0..MaxRetries :
       AddJobCall(a, ETA_LIDER_TASK, jobData, retries, DefaultDelay, 0)

Next ==
  \/ AddJob /\ UNCHANGED histVars
  \/ \E a \in Producers : AddJobResume(a) /\ UNCHANGED histVars
  \/ \E p \in Passes : Trigger(p) /\ UNCHANGED histVars
  \/ \E p \in Passes : ProcessQueueStart(p) /\ UNCHANGED histVars
  \/ \E p \in Passes : DispatchOk(p) /\ UNCHANGED histVars
  \/ \E p \in Passes : DispatchFail(p) /\ UNCHANGED histVars
  \/ \E p \in Passes : DequeueJobBody(p) /\ UNCHANGED histVars
  \/ \E p \in Passes : AfterDequeueOk(p) /\ UNCHANGED histVars
  \/ \E p \in Passes : AfterUpdate(p) /\ UNCHANGED histVars
  \/ \E p \in Passes : AfterDequeueFail(p) /\ UNCHANGED histVars

Spec == Init /\ [][Next]_vars

\* ------------------------------------------------ history of one pass
Started(p) == ~Active(p) /\ pc'[p] = "getQueue"
Ended(p) == Active(p) /\ pc'[p] \in {"idle", "threw"}
Dispatched(p) == pc[p] # "dispatch" /\ pc'[p] = "dispatch"
Retained(p) == pc[p] = "dispatch" /\ pc'[p] = "updated"

\* What a step adds to the history of the running pass; the history is
\* cleared when the pass ends.
Observe ==
  /\ snap' = IF \E p \in Passes : Ended(p) THEN <<>>
             ELSE IF \E p \in Passes : pc[p] = "getQueue" /\ pc'[p] # "getQueue"
             THEN Ids(Queue) ELSE snap
  /\ visited' = IF \E p \in Passes : Ended(p) THEN <<>>
                ELSE IF \E p \in Passes : Dispatched(p)
                THEN Append(visited, disp'[CHOOSE p \in Passes : Dispatched(p)].id)
                ELSE visited
  /\ retained' = IF \E p \in Passes : Ended(p) THEN FALSE
                 ELSE retained \/ \E p \in Passes : Retained(p)

\* -------------------------------------------- sequential specification
\* Passes do not overlap and no addJob runs during a pass or during another
\* addJob: the regime of the claims about a single undisturbed pass.
AddJobSeq ==
  /\ NoPassActive
  /\ NoAddPending
  /\ \E a \in Producers, jobData \in JobDatas, retries \in 0..MaxRetries,
        delay \in 0..MaxDelay, now \in 0..MaxTime :
          AddJobCall(a, ETA_LIDER_TASK, jobData, retries, delay, now)

TriggerSeq(p) == NoPassActive /\ Trigger(p)

\* The history of the running pass; passes are not counted.
SeqHistory == Observe /\ UNCHANGED <<passesDone, addsDone, ret, funcVars, twin>>

NextSeq ==
  \/ AddJobSeq /\ SeqHistory
  \/ \E a \in Producers : AddJobResume(a) /\ SeqHistory
  \/ \E p \in Passes : TriggerSeq(p) /\ SeqHistory
  \/ \E p \in Passes : ProcessQueueStart(p) /\ SeqHistory
  \/ \E p \in Passes : DispatchOk(p) /\ SeqHistory
  \/ \E p \in Passes : DispatchFail(p) /\ SeqHistory
  \/ \E p \in Passes : DequeueJobBody(p) /\ SeqHistory
  \/ \E p \in Passes : AfterDequeueOk(p) /\ SeqHistory
  \/ \E p \in Passes : AfterUpdate(p) /\ SeqHistory
  \/ \E p \in Passes : AfterDequeueFail(p) /\ SeqHistory

SpecSeq == Init /\ [][NextSeq]_vars

\* ------------------------------------------- all-dispatches-fail runs
\* One job enqueued with the default retries, then non-overlapping passes in
\* which every dispatch fails; passesDone counts the passes completed.
InitRetry ==
  /\ \E jobData \in JobDatas, delay \in 0..MaxDelay, now \in 0..MaxTime :
       queues = [GetQueue([n \in {} |-> <<>>], ETA_LIDER_TASK) EXCEPT
                   ![ETA_LIDER_TASK] =
                     Append(@, CreateJob(ETA_LIDER_TASK, jobData,
                                         DefaultRetries, delay, now))]
  /\ pc = [p \in Passes |-> "idle"]
  /\ index = [p \in Passes |-> 0]
  /\ disp = [p \in Passes |-> NoJob]
  /\ jobId = [p \in Passes |-> NoId]
  /\ apc = [a \in Producers |-> "idle"]
  /\ acall = [a \in Producers |-> NoCall]
  /\ aexists = [a \in Producers |-> FALSE]
  /\ snap = <<>>
  /\ visited = <<>>
  /\ retained = FALSE
  /\ passesDone = 0
  /\ addsDone = 0
  /\ ret = NoRet
  /\ arg = NoArg
  /\ out = NoOut
  /\ twin = NoTwin

\* The history of a pass, and the count of the passes that have ended.
RetryHistory ==
  /\ Observe
  /\ passesDone' = IF \E p \in Passes : Ended(p) THEN passesDone + 1 ELSE passesDone
  /\ UNCHANGED <<addsDone, ret, funcVars, twin>>

NextRetry ==
  \/ \E p \in Passes : passesDone < MaxFailPasses /\ TriggerSeq(p) /\ RetryHistory
  \/ \E p \in Passes : ProcessQueueStart(p) /\ RetryHistory
  \/ \E p \in Passes : DispatchFail(p) /\ RetryHistory
  \/ \E p \in Passes : DequeueJobBody(p) /\ RetryHistory
  \/ \E p \in Passes : AfterUpdate(p) /\ RetryHistory
  \/ \E p \in Passes : AfterDequeueFail(p) /\ RetryHistory

SpecRetry == InitRetry /\ [][NextRetry]_vars

\* ---------------------------------------- producers racing one pass
\* addJob calls race each other and the pass in progress; passes do not
\* overlap. The retries argument ranges over 0..MaxRaceRetries.
AddJobRace ==
  \E a \in Producers, jobData \in JobDatas, retries \in 0..MaxRaceRetries :
       AddJobCall(a, ETA_LIDER_TASK, jobData, retries, DefaultDelay, 0)

NextRace ==
  \/ AddJobRace /\ UNCHANGED histVars
  \/ \E a \in Producers : AddJobResume(a) /\ UNCHANGED histVars
  \/ \E p \in Passes : TriggerSeq(p) /\ UNCHANGED histVars
  \/ \E p \in Passes : ProcessQueueStart(p) /\ UNCHANGED histVars
  \/ \E p \in Passes : DispatchOk(p) /\ UNCHANGED histVars
  \/ \E p \in Passes : DispatchFail(p) /\ UNCHANGED histVars
  \/ \E p \in Passes : DequeueJobBody(p) /\ UNCHANGED histVars
  \/ \E p \in Passes : AfterDequeueOk(p) /\ UNCHANGED histVars
  \/ \E p \in Passes : AfterUpdate(p) /\ UNCHANGED histVars
  \/ \E p \in Passes : AfterDequeueFail(p) /\ UNCHANGED histVars

SpecRace == Init /\ [][NextRace]_vars

\* ------------------------------------------- one producer and one pass
\* One addJob call at a time, at any point of the pass in progress; passes
\* do not overlap. The history of the pass is kept.
AddJobOne ==
  /\ NoAddPending
  /\ \E a \in Producers, jobData \in JobDatas, retries \in 0..MaxRetries :
        AddJobCall(a, ETA_LIDER_TASK, jobData, retries, DefaultDelay, 0)

NextProd ==
  \/ AddJobOne /\ SeqHistory
  \/ \E a \in Producers : AddJobResume(a) /\ SeqHistory
  \/ \E p \in Passes : TriggerSeq(p) /\ SeqHistory
  \/ \E p \in Passes : ProcessQueueStart(p) /\ SeqHistory
  \/ \E p \in Passes : DispatchOk(p) /\ SeqHistory
  \/ \E p \in Passes : DispatchFail(p) /\ SeqHistory
  \/ \E p \in Passes : DequeueJobBody(p) /\ SeqHistory
  \/ \E p \in Passes : AfterDequeueOk(p) /\ SeqHistory
  \/ \E p \in Passes : AfterUpdate(p) /\ SeqHistory
  \/ \E p \in Passes : AfterDequeueFail(p) /\ SeqHistory

SpecProd == Init /\ [][NextProd]_vars

\* ------------------------------------------------ producers that stop
\* The full interleaving (racing addJob calls, overlapping passes) with a
\* bounded number of addJob calls. The timer keeps firing, every suspended
\* continuation is resumed and every dispatch returns, with either outcome.
LiveHistory == UNCHANGED <<snap, visited, retained, passesDone, ret, funcVars, twin>>

AddJobLive ==
  /\ addsDone < MaxAdds
  /\ addsDone' = addsDone + 1
  /\ AddJob

NextLive ==
  \/ AddJobLive /\ LiveHistory
  \/ \E a \in Producers : AddJobResume(a) /\ UNCHANGED histVars
  \/ \E p \in Passes : Trigger(p) /\ UNCHANGED histVars
  \/ \E p \in Passes : ProcessQueueStart(p) /\ UNCHANGED histVars
  \/ \E p \in Passes : DispatchOk(p) /\ UNCHANGED histVars
  \/ \E p \in Passes : DispatchFail(p) /\ UNCHANGED histVars
  \/ \E p \in Passes : DequeueJobBody(p) /\ UNCHANGED histVars
  \/ \E p \in Passes : AfterDequeueOk(p) /\ UNCHANGED histVars
  \/ \E p \in Passes : AfterUpdate(p) /\ UNCHANGED histVars
  \/ \E p \in Passes : AfterDequeueFail(p) /\ UNCHANGED histVars

Fairness ==
  /\ \A a \in Producers : WF_vars(AddJobResume(a) /\ UNCHANGED histVars)
  /\ \A p \in Passes :
       /\ WF_vars(Trigger(p) /\ UNCHANGED histVars)
       /\ WF_vars(ProcessQueueStart(p) /\ UNCHANGED histVars)
       /\ WF_vars((DispatchOk(p) \/ DispatchFail(p)) /\ UNCHANGED histVars)
       /\ WF_vars(DequeueJobBody(p) /\ UNCHANGED histVars)
       /\ WF_vars(AfterDequeueOk(p) /\ UNCHANGED histVars)
       /\ WF_vars(AfterUpdate(p) /\ UNCHANGED histVars)
       /\ WF_vars(AfterDequeueFail(p) /\ UNCHANGED histVars)

SpecLive == Init /\ [][NextLive]_vars /\ Fairness

\* ------------------------------------------- the store called directly
\* The methods of MemoryQueueService called one at a time, on two queue
\* names, with no pass running; updateJob is given any of UpdateFields.
QueueNames == {ETA_LIDER_TASK, OtherTask}
StoreIds(queueName) == {GenerateJobId(queueName, jobData) : jobData \in JobDatas}
UpdateFields(queueName) ==
  {[retries |-> r] : r \in 0..MaxRetries}
    \cup {[id |-> id] : id \in StoreIds(queueName)}

Returned(op, kind, jobs) == ret' = [op |-> op, kind |-> kind, jobs |-> jobs]

\* Mutant: the queue is looked up before the job is built.
AddJobThrowsAfterGetQueue(a, queueName, jobData, retries, delay) ==
  /\ apc[a] = "idle"
  /\ GenerateJobIdThrows(jobData)
  /\ queues' = GetQueue(queues, queueName)
  /\ UNCHANGED <<passVars, addVars>>

\* addJob when createJob throws: the call ends at its first line.
AddJobThrows(a, queueName, jobData, retries, delay) ==
  /\ apc[a] = "idle"
  /\ GenerateJobIdThrows(jobData)
  /\ UNCHANGED <<queues, passVars, addVars>>

StoreAddJob ==
  /\ NoAddPending
  /\ \E a \in Producers, queueName \in QueueNames, jobData \in JobDatas,
        retries \in 0..MaxRetries :
          AddJobCall(a, queueName, jobData, retries, DefaultDelay, 0)
  /\ Returned("addJob", "pending", <<>>)

StoreAddJobThrows ==
  /\ NoAddPending
  /\ \E a \in Producers, queueName \in QueueNames, jobData \in BadJobDatas,
        retries \in 0..MaxRetries :
          AddJobThrows(a, queueName, jobData, retries, DefaultDelay)
  /\ Returned("addJob", "threw", <<>>)

StoreAddJobResume(a) == AddJobResume(a) /\ Returned("addJob", "void", <<>>)

StoreGetQueue(queueName) ==
  /\ NoAddPending
  /\ queues' = GetQueue(queues, queueName)
  /\ Returned("getQueue", "queue", GetQueue(queues, queueName)[queueName])
  /\ UNCHANGED <<passVars, addVars>>

StoreHasJob(queueName, id) ==
  /\ NoAddPending
  /\ queues' = GetQueue(queues, queueName)
  /\ Returned("hasJob", IF HasJob(queues, queueName, id) THEN "true" ELSE "false", <<>>)
  /\ UNCHANGED <<passVars, addVars>>

StoreGetNextJob(queueName) ==
  /\ NoAddPending
  /\ queues' = GetQueue(queues, queueName)
  /\ Returned("getNextJob",
              IF GetNextJob(queues, queueName) = <<>> THEN "null" ELSE "job",
              GetNextJob(queues, queueName))
  /\ UNCHANGED <<passVars, addVars>>

StoreDequeueJob(queueName, id) ==
  /\ NoAddPending
  /\ queues' = DequeueJob(queues, queueName, id)
  /\ Returned("dequeueJob", "void", <<>>)
  /\ UNCHANGED <<passVars, addVars>>

StoreUpdateJob(queueName, id, updatedJobData) ==
  /\ NoAddPending
  /\ queues' = UpdateJob(queues, queueName, id, updatedJobData)
  /\ Returned("updateJob",
              IF UpdateJobReturns(queues, queueName, id) THEN "true" ELSE "false", <<>>)
  /\ UNCHANGED <<passVars, addVars>>

StoreHistory ==
  UNCHANGED <<snap, visited, retained, passesDone, addsDone, funcVars, twin>>

NextStore ==
  \/ StoreAddJob /\ StoreHistory
  \/ StoreAddJobThrows /\ StoreHistory
  \/ \E a \in Producers : StoreAddJobResume(a) /\ StoreHistory
  \/ \E queueName \in QueueNames : StoreGetQueue(queueName) /\ StoreHistory
  \/ \E queueName \in QueueNames : \E id \in StoreIds(queueName) :
        StoreHasJob(queueName, id) /\ StoreHistory
  \/ \E queueName \in QueueNames : StoreGetNextJob(queueName) /\ StoreHistory
  \/ \E queueName \in QueueNames : \E id \in StoreIds(queueName) :
        StoreDequeueJob(queueName, id) /\ StoreHistory
  \/ \E queueName \in QueueNames : \E id \in StoreIds(queueName) :
        \E updatedJobData \in UpdateFields(queueName) :
           StoreUpdateJob(queueName, id, updatedJobData) /\ StoreHistory

SpecStore == Init /\ [][NextStore]_vars

\* ------------------------------------------------ two queues, one pass
\* The store holds a second queue next to the well-known one. addJob,
\* dequeueJob and updateJob are called one at a time on either name: on the
\* second queue at any point of the pass in progress, on the well-known
\* queue between passes. Passes do not overlap. ret names the last call.
RetriesFields == {[retries |-> r] : r \in 0..MaxRetries}

QueuesAddJob ==
  /\ NoAddPending
  /\ \E a \in Producers, queueName \in QueueNames, jobData \in JobDatas,
        retries \in 0..MaxRetries :
          /\ queueName = ETA_LIDER_TASK => NoPassActive
          /\ AddJobCall(a, queueName, jobData, retries, DefaultDelay, 0)
  /\ Returned("addJob", "pending", <<>>)

QueuesDequeueJob(queueName, id) ==
  /\ queueName = ETA_LIDER_TASK => NoPassActive
  /\ StoreDequeueJob(queueName, id)

QueuesUpdateJob(queueName, id, updatedJobData) ==
  /\ queueName = ETA_LIDER_TASK => NoPassActive
  /\ StoreUpdateJob(queueName, id, updatedJobData)

QueuesHistory == Observe /\ UNCHANGED <<passesDone, addsDone, funcVars, twin>>
QueuesPassHistory == QueuesHistory /\ UNCHANGED ret

NextQueues ==
  \/ QueuesAddJob /\ QueuesHistory
  \/ \E a \in Producers : StoreAddJobResume(a) /\ QueuesHistory
  \/ \E queueName \in QueueNames : \E id \in StoreIds(queueName) :
        QueuesDequeueJob(queueName, id) /\ QueuesHistory
  \/ \E queueName \in QueueNames : \E id \in StoreIds(queueName) :
        \E updatedJobData \in RetriesFields :
           QueuesUpdateJob(queueName, id, updatedJobData) /\ QueuesHistory
  \/ \E p \in Passes : TriggerSeq(p) /\ QueuesPassHistory
  \/ \E p \in Passes : ProcessQueueStart(p) /\ QueuesPassHistory
  \/ \E p \in Passes : DispatchOk(p) /\ QueuesPassHistory
  \/ \E p \in Passes : DispatchFail(p) /\ QueuesPassHistory
  \/ \E p \in Passes : DequeueJobBody(p) /\ QueuesPassHistory
  \/ \E p \in Passes : AfterDequeueOk(p) /\ QueuesPassHistory
  \/ \E p \in Passes : AfterUpdate(p) /\ QueuesPassHistory
  \/ \E p \in Passes : AfterDequeueFail(p) /\ QueuesPassHistory

SpecQueues == Init /\ [][NextQueues]_vars

\* ------------------------------------------- the attempts of each job
\* One addJob call at a time, at any point of the pass in progress; passes do
\* not overlap. On top of the history of the pass, twin keeps the queue the
\* pass found when it started, and for every queued job the retries it was
\* enqueued with and the dispatches made of it since, and the ids of the jobs
\* that have left the queue.
NoAttempts ==
  [phase |-> 0, start |-> <<>>,
   given |-> [id \in StoreIds(ETA_LIDER_TASK) |-> 0],
   attempts |-> [id \in StoreIds(ETA_LIDER_TASK) |-> 0],
   gone |-> {}]

InitAttempts ==
  /\ queues = [n \in {} |-> <<>>]
  /\ pc = [p \in Passes |-> "idle"]
  /\ index = [p \in Passes |-> 0]
  /\ disp = [p \in Passes |-> NoJob]
  /\ jobId = [p \in Passes |-> NoId]
  /\ apc = [a \in Producers |-> "idle"]
  /\ acall = [a \in Producers |-> NoCall]
  /\ aexists = [a \in Producers |-> FALSE]
  /\ snap = <<>>
  /\ visited = <<>>
  /\ retained = FALSE
  /\ passesDone = 0
  /\ addsDone = 0
  /\ ret = NoRet
  /\ arg = NoArg
  /\ out = NoOut
  /\ twin = NoAttempts

AttemptsHistory ==
  LET pushes(id) == \E a \in Producers :
                      /\ apc[a] = "hasJob" /\ apc'[a] = "idle" /\ ~aexists[a]
                      /\ acall[a].job.id = id
      queued(id) == HasJob(queues', ETA_LIDER_TASK, id)
  IN
  /\ Observe
  /\ twin' =
       [phase |-> 0,
        start |-> IF \E p \in Passes : Ended(p) THEN <<>>
                  ELSE IF \E p \in Passes : pc[p] = "getQueue" /\ pc'[p] # "getQueue"
                  THEN Queue ELSE twin.start,
        given |-> [id \in StoreIds(ETA_LIDER_TASK) |->
                     IF ~queued(id) THEN 0
                     ELSE IF pushes(id)
                     THEN acall[CHOOSE a \in Producers :
                                  apc[a] = "hasJob" /\ acall[a].job.id = id].job.retries
                     ELSE twin.given[id]],
        attempts |-> [id \in StoreIds(ETA_LIDER_TASK) |->
                        IF ~queued(id) \/ pushes(id) THEN 0
                        ELSE IF \E p \in Passes : Dispatched(p) /\ disp'[p].id = id
                        THEN twin.attempts[id] + 1
                        ELSE twin.attempts[id]],
        gone |-> twin.gone \cup {id \in StoreIds(ETA_LIDER_TASK) :
                                   HasJob(queues, ETA_LIDER_TASK, id) /\ ~queued(id)}]
  /\ UNCHANGED <<passesDone, addsDone, ret, funcVars>>

NextAttempts ==
  \/ AddJobOne /\ AttemptsHistory
  \/ \E a \in Producers : AddJobResume(a) /\ AttemptsHistory
  \/ \E p \in Passes : TriggerSeq(p) /\ AttemptsHistory
  \/ \E p \in Passes : ProcessQueueStart(p) /\ AttemptsHistory
  \/ \E p \in Passes : DispatchOk(p) /\ AttemptsHistory
  \/ \E p \in Passes : DispatchFail(p) /\ AttemptsHistory
  \/ \E p \in Passes : DequeueJobBody(p) /\ AttemptsHistory
  \/ \E p \in Passes : AfterDequeueOk(p) /\ AttemptsHistory
  \/ \E p \in Passes : AfterUpdate(p) /\ AttemptsHistory
  \/ \E p \in Passes : AfterDequeueFail(p) /\ AttemptsHistory

SpecAttempts == InitAttempts /\ [][NextAttempts]_vars

\* The same history with addJob called between passes only: what one
\* undisturbed pass does to the queue it found.
NextUndisturbed ==
  \/ AddJobSeq /\ AttemptsHistory
  \/ \E a \in Producers : AddJobResume(a) /\ AttemptsHistory
  \/ \E p \in Passes : TriggerSeq(p) /\ AttemptsHistory
  \/ \E p \in Passes : ProcessQueueStart(p) /\ AttemptsHistory
  \/ \E p \in Passes : DispatchOk(p) /\ AttemptsHistory
  \/ \E p \in Passes : DispatchFail(p) /\ AttemptsHistory
  \/ \E p \in Passes : DequeueJobBody(p) /\ AttemptsHistory
  \/ \E p \in Passes : AfterDequeueOk(p) /\ AttemptsHistory
  \/ \E p \in Passes : AfterUpdate(p) /\ AttemptsHistory
  \/ \E p \in Passes : AfterDequeueFail(p) /\ AttemptsHistory

SpecUndisturbed == InitAttempts /\ [][NextUndisturbed]_vars

\* --------------------------------------- one run on two sets of delays
\* A run of non-overlapping passes on a queue filled beforehand is recorded:
\* every step with its name (a trigger, a dispatch outcome or a continuation)
\* and what can be seen after it. The store is then set back to the same
\* queue with other delay values and the recorded steps are taken again, in
\* order; twin.same tells whether every step showed what it showed before.
DelayJobs ==
  {CreateJob(ETA_LIDER_TASK, jobData, retries, delay, 0) :
     jobData \in JobDatas, retries \in 0..MaxRetries, delay \in 0..MaxDelay}
DelayQueues ==
  {queue \in UNION {[1..n -> DelayJobs] : n \in 1..MaxQueue} :
     \A i, j \in 1..Len(queue) : i # j => queue[i].id # queue[j].id}

\* A queue with the delay fields blanked.
WithoutDelay(queue) == [i \in 1..Len(queue) |-> [queue[i] EXCEPT !.delay = DefaultDelay]]

\* What a run shows: where each pass stands, the job each pass has handed to
\* the external service, and the queue apart from the delays.
Shown ==
  [pc |-> pc, index |-> index,
   dispatched |-> [p \in Passes |-> disp[p].id],
   queue |-> WithoutDelay(Queue)]

Triggers(log) == Cardinality({i \in 1..Len(log) : log[i].act = "Trigger"})

InitDelay ==
  /\ \E queue \in DelayQueues :
       /\ queues = [n \in {ETA_LIDER_TASK} |-> queue]
       /\ twin = [phase |-> 1, start |-> queue, log |-> <<>>, next |-> 1, same |-> TRUE]
  /\ pc = [p \in Passes |-> "idle"]
  /\ index = [p \in Passes |-> 0]
  /\ disp = [p \in Passes |-> NoJob]
  /\ jobId = [p \in Passes |-> NoId]
  /\ apc = [a \in Producers |-> "idle"]
  /\ acall = [a \in Producers |-> NoCall]
  /\ aexists = [a \in Producers |-> FALSE]
  /\ snap = <<>>
  /\ visited = <<>>
  /\ retained = FALSE
  /\ passesDone = 0
  /\ addsDone = 0
  /\ ret = NoRet
  /\ arg = NoArg
  /\ out = NoOut

\* The step named act is recorded (first run) or is the next recorded step
\* and is compared with the record (second run).
TwinStep(act) ==
  /\ \/ /\ twin.phase = 1
        /\ act = "Trigger" => Triggers(twin.log) < MaxTwinPasses
        /\ twin' = [twin EXCEPT !.log = Append(@, [act |-> act, shown |-> Shown'])]
     \/ /\ twin.phase = 2
        /\ twin.next <= Len(twin.log)
        /\ twin.log[twin.next].act = act
        /\ twin' = [twin EXCEPT !.next = @ + 1,
                                !.same = @ /\ Shown' = twin.log[twin.next].shown]
  /\ UNCHANGED <<snap, visited, retained, passesDone, addsDone, ret, funcVars>>

\* The first run is over: the second run starts on the same queue with
\* other delay values.
Replay ==
  /\ twin.phase = 1
  /\ twin.log # <<>>
  /\ NoPassActive
  /\ \E queue \in DelayQueues :
       /\ WithoutDelay(queue) = WithoutDelay(twin.start)
       /\ queue # twin.start
       /\ queues' = [n \in {ETA_LIDER_TASK} |-> queue]
  /\ pc' = [p \in Passes |-> "idle"]
  /\ twin' = [twin EXCEPT !.phase = 2]
  /\ UNCHANGED <<index, disp, jobId, addVars, snap, visited, retained,
                 passesDone, addsDone, ret, funcVars>>

NextDelay ==
  \/ \E p \in Passes : TriggerSeq(p) /\ TwinStep("Trigger")
  \/ \E p \in Passes : ProcessQueueStart(p) /\ TwinStep("ProcessQueueStart")
  \/ \E p \in Passes : DispatchOk(p) /\ TwinStep("DispatchOk")
  \/ \E p \in Passes : DispatchFail(p) /\ TwinStep("DispatchFail")
  \/ \E p \in Passes : DequeueJobBody(p) /\ TwinStep("DequeueJobBody")
  \/ \E p \in Passes : AfterDequeueOk(p) /\ TwinStep("AfterDequeueOk")
  \/ \E p \in Passes : AfterUpdate(p) /\ TwinStep("AfterUpdate")
  \/ \E p \in Passes : AfterDequeueFail(p) /\ TwinStep("AfterDequeueFail")
  \/ Replay

SpecDelay == InitDelay /\ [][NextDelay]_vars

\* ------------------------------------------------- basicAuthDecoder
\* A JavaScript string is the sequence of its characters, each a string of
\* length 1.
Base64Chars ==
  <<"A", "B", "C", "D", "E", "F", "G", "H", "I", "J", "K", "L", "M", "N", "O", "P",
    "Q", "R", "S", "T", "U", "V", "W", "X", "Y", "Z", "a", "b", "c", "d", "e", "f",
    "g", "h", "i", "j", "k", "l", "m", "n", "o", "p", "q", "r", "s", "t", "u", "v",
    "w", "x", "y", "z", "0", "1", "2", "3", "4", "5", "6", "7", "8", "9", "+", "/">>

\* The characters the decoded texts are written in, with their UTF-8 codes
\* (all ASCII: one byte each).
TextChars == <<" ", ":", "a", "b", "c", "d", "e", "i", "m", "n", "r", "s", "t">>
TextCodes == <<32, 58, 97, 98, 99, 100, 101, 105, 109, 110, 114, 115, 116>>

\* String.prototype.trim strips white space; of TextChars only the space is.
WhiteSpace == {" "}

SextetOf(c) == (CHOOSE i \in 1..Len(Base64Chars) : Base64Chars[i] = c) - 1
CodeOf(c) == TextCodes[CHOOSE i \in 1..Len(TextChars) : TextChars[i] = c]
CharOf(byte) == TextChars[CHOOSE i \in 1..Len(TextCodes) : TextCodes[i] = byte]

\* The standard base64 encoding of a byte sequence, with padding: what the
\* sender of a header computes.
RECURSIVE Base64Encode(_)
Base64Encode(bytes) ==
  IF bytes = <<>> THEN <<>>
  ELSE IF Len(bytes) = 1
  THEN <<Base64Chars[(bytes[1] \div 4) + 1],
         Base64Chars[((bytes[1] % 4) * 16) + 1], "=", "=">>
  ELSE IF Len(bytes) = 2
  THEN <<Base64Chars[(bytes[1] \div 4) + 1],
         Base64Chars[((bytes[1] % 4) * 16 + bytes[2] \div 16) + 1],
         Base64Chars[((bytes[2] % 16) * 4) + 1], "=">>
  ELSE <<Base64Chars[(bytes[1] \div 4) + 1],
         Base64Chars[((bytes[1] % 4) * 16 + bytes[2] \div 16) + 1],
         Base64Chars[((bytes[2] % 16) * 4 + bytes[3] \div 64) + 1],
         Base64Chars[(bytes[3] % 64) + 1]>>
         \o Base64Encode(SubSeq(bytes, 4, Len(bytes)))

Utf8Bytes(text) == [i \in 1..Len(text) |-> CodeOf(text[i])]

\* Buffer.from(s, 'base64') on a string of the base64 alphabet and "=":
\* decoding stops at the first "="; a trailing group of 2 or 3 characters
\* gives 1 or 2 bytes, a single trailing character gives none.
UpToPad(s) ==
  IF \E i \in 1..Len(s) : s[i] = "="
  THEN SubSeq(s, 1, (CHOOSE i \in 1..Len(s) :
                       s[i] = "=" /\ \A j \in 1..(i - 1) : s[j] # "=") - 1)
  ELSE s

RECURSIVE DecodeSextets(_)
DecodeSextets(x) ==
  IF Len(x) < 2 THEN <<>>
  ELSE IF Len(x) = 2 THEN <<x[1] * 4 + x[2] \div 16>>
  ELSE IF Len(x) = 3
  THEN <<x[1] * 4 + x[2] \div 16, (x[2] % 16) * 16 + x[3] \div 4>>
  ELSE <<x[1] * 4 + x[2] \div 16, (x[2] % 16) * 16 + x[3] \div 4,
         (x[3] % 4) * 64 + x[4]>> \o DecodeSextets(SubSeq(x, 5, Len(x)))

Base64Decode(s) ==
  DecodeSextets([i \in 1..Len(UpToPad(s)) |-> SextetOf(UpToPad(s)[i])])

\* buffer.toString('utf8') on ASCII bytes.
Utf8String(bytes) == [i \in 1..Len(bytes) |-> CharOf(bytes[i])]

BasicPrefix == <<"B", "a", "s", "i", "c", " ">>

StartsWith(input, prefix) ==
  Len(input) >= Len(prefix) /\ SubSeq(input, 1, Len(prefix)) = prefix

Slice(input, start) == SubSeq(input, start + 1, Len(input))

RECURSIVE TrimStart(_)
TrimStart(s) ==
  IF s # <<>> /\ Head(s) \in WhiteSpace THEN TrimStart(Tail(s)) ELSE s

RECURSIVE TrimEnd(_)
TrimEnd(s) ==
  IF s # <<>> /\ s[Len(s)] \in WhiteSpace
  THEN TrimEnd(SubSeq(s, 1, Len(s) - 1)) ELSE s

Trim(s) == TrimEnd(TrimStart(s))

\* /^[A-Za-z0-9+/=]+$/.test(s)
IsBase64Text(s) ==
  /\ s # <<>>
  /\ \A i \in 1..Len(s) :
       s[i] = "=" \/ \E k \in 1..Len(Base64Chars) : Base64Chars[k] = s[i]

\* String.prototype.split(sep): the parts between the separators.
RECURSIVE Split(_, _)
Split(s, sep) ==
  IF \E i \in 1..Len(s) : s[i] = sep
  THEN LET i == CHOOSE i \in 1..Len(s) :
                  s[i] = sep /\ \A j \in 1..(i - 1) : s[j] # sep
       IN <<SubSeq(s, 1, i - 1)>> \o Split(SubSeq(s, i + 1, Len(s)), sep)
  ELSE <<s>>

HttpException(message, status) ==
  [kind |-> "throw", message |-> message, status |-> status]

\* Mutant: the password is everything after the first ":".
BasicAuthDecoderRestIsPassword(input) ==
  IF input = <<>> \/ ~StartsWith(input, BasicPrefix)
  THEN [kind |-> "return", value |-> [username |-> <<>>, password |-> <<>>]]
  ELSE LET base64String == Trim(Slice(input, 6)) IN
       IF ~IsBase64Text(base64String)
       THEN HttpException("Authentication failed", 401)
       ELSE LET decoded == Utf8String(Base64Decode(base64String))
                parts == Split(decoded, ":")
                rest == SubSeq(decoded, Len(parts[1]) + 2, Len(decoded))
            IN IF Trim(parts[1]) = <<>> \/ Len(parts) < 2 \/ rest = <<>>
               THEN HttpException("Username and password cannot be empty", 401)
               ELSE [kind |-> "return",
                     value |-> [username |-> parts[1], password |-> rest]]

\* basicAuthDecoder. `const [username, password] = decoded.split(':')` takes
\* the first two parts; password is undefined when there is one part.
BasicAuthDecoder(input) ==
  IF input = <<>> \/ ~StartsWith(input, BasicPrefix)
  THEN [kind |-> "return", value |-> [username |-> <<>>, password |-> <<>>]]
  ELSE LET base64String == Trim(Slice(input, 6)) IN
       IF ~IsBase64Text(base64String)
       THEN HttpException("Authentication failed", 401)
       ELSE LET parts == Split(Utf8String(Base64Decode(base64String)), ":")
            IN IF Trim(parts[1]) = <<>> \/ Len(parts) < 2 \/ Trim(parts[2]) = <<>>
               THEN HttpException("Username and password cannot be empty", 401)
               ELSE [kind |-> "return",
                     value |-> [username |-> Trim(parts[1]),
                                password |-> Trim(parts[2])]]

\* ---------------------------------------- functions called on their own
\* generateJobId applied to one (queue name, payload) pair drawn from
\* IdArgs. Queue names and process values with a "-" inside make the parts of
\* the template string ambiguous without the digest.
IdQueueNames == {ETA_LIDER_TASK, ETA_LIDER_TASK \o "-GET"}
IdDatas ==
  [macAddress : {"AA", "AB"}] \cup [macAddress : {"AA", "AB"}, schoolName : {"S"}]
IdPayloadsPlain ==
  [process : {"GET", "GET-GET", "UPDATE"}, targetRequestDomain : {"ETA", "LIDER"},
   data : IdDatas]
IdPayloads ==
  IdPayloadsPlain
    \cup [process : {"GET", "GET-GET", "UPDATE"},
          targetRequestDomain : {"ETA", "LIDER"}, data : IdDatas, key : {"k"}]
    \cup [process : {"GET", "GET-GET", "UPDATE"},
          targetRequestDomain : {"ETA", "LIDER"}, data : IdDatas,
          propertyOrder : {<<"process", "targetRequestDomain", "data">>}]
IdArgs == [fn : {"generateJobId"}, queueName : IdQueueNames, jobData : IdPayloads]

\* The routing of processQueue applied to one queued job: the process is any
\* string and the target domain any value, those of the enum or not.
RoutePayloads ==
  [process : {"GET", "get", "UPDATE"}, targetRequestDomain : {"ETA", "LIDER", "OTHER"},
   data : IdDatas]
RouteArgs ==
  [fn : {"route"},
   job : {CreateJob(ETA_LIDER_TASK, jobData, DefaultRetries, DefaultDelay, 0) :
            jobData \in RoutePayloads}]

\* basicAuthDecoder applied to one header. The texts are written in
\* AuthAlphabet; usernames hold no ":" (the first ":" of a credential ends
\* the user id).
AuthAlphabet == {" ", ":", "a", "b"}
Texts(alphabet, least, most) == UNION {[1..n -> alphabet] : n \in least..most}
Header(text) == BasicPrefix \o Base64Encode(Utf8Bytes(text))

\* The headers of the unit tests: admin:secret, a remainder that is not
\* base64, and admin: (no password).
TestHeaders ==
  { BasicPrefix \o <<"Y", "W", "R", "t", "a", "W", "4", "6", "c", "2", "V", "j", "c", "m", "V", "0">>,
    BasicPrefix \o <<"i", "n", "v", "a", "l", "i", "d", "_", "b", "a", "s", "e", "6", "4">>,
    BasicPrefix \o <<"Y", "W", "R", "t", "a", "W", "4", "6">> }

\* Headers made by a client from a username and a password.
CredentialArgs ==
  { [fn |-> "basicAuthDecoder", username |-> username, password |-> password,
     input |-> Header(username \o <<":">> \o password)] :
       username \in Texts(AuthAlphabet \ {":"}, 1, MaxUsername),
       password \in Texts(AuthAlphabet, 1, MaxPassword) }

\* Any header: the encoding of any text, bare or with white space around it,
\* with a character put in after its second character, or without the
\* "Basic " prefix.
AuthInputs ==
  TestHeaders
    \cup { BasicPrefix \o lead \o Base64Encode(Utf8Bytes(text)) \o trail :
             text \in Texts(AuthAlphabet, 0, MaxText),
             lead \in {<<>>, <<" ">>}, trail \in {<<>>, <<" ">>} }
    \cup { LET encoded == Base64Encode(Utf8Bytes(text))
           IN BasicPrefix \o SubSeq(encoded, 1, 2) \o <<c>>
                \o SubSeq(encoded, 3, Len(encoded)) :
             text \in Texts(AuthAlphabet, 1, MaxText), c \in {"_", " "} }
    \cup { prefix \o Base64Encode(Utf8Bytes(text)) :
             text \in Texts(AuthAlphabet, 0, MaxText),
             prefix \in {<<>>, <<"B", "a", "s", "i", "c">>} }
AuthArgs == [fn : {"basicAuthDecoder"}, input : AuthInputs]

FuncArgs == IdArgs \cup RouteArgs \cup CredentialArgs \cup AuthArgs

InitFuncs ==
  /\ arg \in FuncArgs
  /\ out = NoOut
  /\ queues = [n \in {} |-> <<>>]
  /\ pc = [p \in Passes |-> "idle"]
  /\ index = [p \in Passes |-> 0]
  /\ disp = [p \in Passes |-> NoJob]
  /\ jobId = [p \in Passes |-> NoId]
  /\ apc = [a \in Producers |-> "idle"]
  /\ acall = [a \in Producers |-> NoCall]
  /\ aexists = [a \in Producers |-> FALSE]
  /\ snap = <<>>
  /\ visited = <<>>
  /\ retained = FALSE
  /\ passesDone = 0
  /\ addsDone = 0
  /\ ret = NoRet
  /\ twin = NoTwin

FuncFrame ==
  UNCHANGED <<queues, passVars, addVars, snap, visited, retained, passesDone,
              addsDone, ret, twin, arg>>

CallGenerateJobId ==
  /\ arg.fn = "generateJobId"
  /\ out = NoOut
  /\ out' = [kind |-> "return", value |-> GenerateJobId(arg.queueName, arg.jobData)]
  /\ FuncFrame

CallRoute ==
  /\ arg.fn = "route"
  /\ out = NoOut
  /\ out' = [kind |-> "return", value |-> Route(arg.job)]
  /\ FuncFrame

CallBasicAuthDecoder ==
  /\ arg.fn = "basicAuthDecoder"
  /\ out = NoOut
  /\ out' = BasicAuthDecoder(arg.input)
  /\ FuncFrame

NextFuncs ==
  \/ CallGenerateJobId
  \/ CallRoute
  \/ CallBasicAuthDecoder

SpecFuncs == InitFuncs /\ [][NextFuncs]_vars

\* ============================================================== claims
InQueue(queue, id) == \E i \in 1..Len(queue) : queue[i].id = id

\* C1: in every reachable state, racing addJob calls and passes included, no
\* queue holds two jobs with the same id.
C1_NoDuplicateIds ==
  \A n \in DOMAIN queues : \A i, j \in 1..Len(queues[n]) :
     i # j => queues[n][i].id # queues[n][j].id

\* C2: an addJob made while a job with the same id is pending (the earlier
\* addJob has completed) changes nothing: neither of its two steps changes
\* the store, whatever retries, delay and timestamp the new call carries.
C2_IdempotentEnqueue ==
  [][\A a \in Producers :
       (apc[a] # apc'[a]
          /\ InQueue(Queue, (IF apc[a] = "idle" THEN acall'[a] ELSE acall[a]).job.id))
       => queues' = queues]_vars

\* C2 witness: a second call for the queued job, carrying other retries,
\* delay and timestamp, is past its membership check; the queue has length 1.
C2_Witness ==
  \E a \in Producers :
     /\ apc[a] = "hasJob"
     /\ Len(Queue) = 1
     /\ Queue[1].id = acall[a].job.id
     /\ Queue[1].retries # acall[a].job.retries
     /\ Queue[1].delay # acall[a].job.delay
     /\ Queue[1].timestamp # acall[a].job.timestamp

\* C3: at most one processQueue pass is in progress at any time.
C3_PassesDoNotOverlap == Cardinality({p \in Passes : Active(p)}) <= 1

\* C4: while the outcome of a dispatch of job J has not been applied to the
\* queue, no other pass has a dispatch of J in flight.
OutcomePending(p) == pc[p] \in {"dispatch", "dequeueOk", "dequeueFail"}

C4_NoDoubleDispatch ==
  \A p, q \in Passes :
     (p # q /\ OutcomePending(p) /\ pc[q] = "dispatch") => disp[p].id # disp[q].id

\* C5: when an undisturbed pass ends, the jobs it dispatched are exactly the
\* jobs that were queued when it started, each once, in queue order.
C5_SnapshotIteration ==
  [][\A p \in Passes : Ended(p) => visited = snap]_vars

\* C6: when an undisturbed pass ends in which no dispatch failed with retries
\* left (every outcome was a success or a failure at retries = 0), the queue
\* is empty.
C6_ResolvedInOnePass ==
  [][\A p \in Passes : (Ended(p) /\ ~retained) => Queue' = <<>>]_vars

\* C7 as claimed: a job enqueued with retries = 3 whose dispatch fails in
\* every pass has retries 2 after pass 1, retries 1 after pass 2 and is absent
\* after pass 3.
RetriesAfterPass(k, r) ==
  (NoPassActive /\ passesDone = k) => (Len(Queue) = 1 /\ Queue[1].retries = r)
AbsentAfterPass(k) ==
  (NoPassActive /\ passesDone = k) => Queue = <<>>

C7_AbsentAfterThreePasses ==
  /\ RetriesAfterPass(1, 2)
  /\ RetriesAfterPass(2, 1)
  /\ AbsentAfterPass(3)

\* C7 amended: retries 2 after pass 1, 1 after pass 2, 0 (still queued) after
\* pass 3; absent after pass 4 and from then on.
C7_AbsentAfterFourPasses ==
  /\ \A k \in 0..DefaultRetries : RetriesAfterPass(k, DefaultRetries - k)
  /\ \A k \in (DefaultRetries + 1)..(MaxFailPasses + 1) : AbsentAfterPass(k)

\* C7 witness: four failing passes are over and the job is gone.
C7_Witness == NoPassActive /\ passesDone = DefaultRetries + 1 /\ Queue = <<>>

\* C8: in an undisturbed pass a failed dispatch of J with J.retries > 0 leaves
\* J at its position with retries one less and the rest of the queue as it
\* was; with J.retries = 0 it leads to the removal of J in that pass.
FailedDispatch(p) == pc[p] = "dispatch" /\ pc'[p] \in {"updated", "dequeueFail"}

C8_RetryDropRule ==
  [][\A p \in Passes :
       /\ (FailedDispatch(p) /\ disp[p].retries > 0) =>
             /\ pc'[p] = "updated"
             /\ Queue' = [Queue EXCEPT ![index[p] + 1] =
                            [disp[p] EXCEPT !.retries = disp[p].retries - 1]]
       /\ (FailedDispatch(p) /\ disp[p].retries = 0) =>
             /\ pc'[p] = "dequeueFail"
             /\ queues' = queues
       /\ (pc[p] = "dequeueFail" /\ pc'[p] = "dequeuedFail") =>
             /\ InQueue(Queue, disp[p].id)
             /\ ~InQueue(Queue', disp[p].id)
             /\ Len(Queue') = Len(Queue) - 1]_vars

\* C8 witness: in one pass the head failed with retries 1 and stayed, at the
\* head, with retries 0; the second job failed with retries 0 and was removed.
C8_Witness ==
  \E p \in Passes :
     /\ pc[p] = "dequeuedFail"
     /\ index[p] = 1
     /\ disp[p].retries = 0
     /\ retained
     /\ Len(Queue) = 1
     /\ Queue[1].retries = 0
     /\ Queue[1].id # disp[p].id

\* C9: the scheduler removes a job only as the outcome of a dispatch of that
\* same job: every removal by a pass removes the job that pass dispatched.
C9_RemovedOnlyAfterOwnDispatch ==
  [][\A p \in Passes :
       (pc[p] \in {"dequeueOk", "dequeueFail"} /\ Active(p)
          /\ pc'[p] \in {"dequeuedOk", "dequeuedFail"} /\ Queue' # Queue)
       => jobId[p] = disp[p].id]_vars

\* C10: no pass ends with an exception.
C10_PassNeverThrows == \A p \in Passes : pc[p] # "threw"

\* C11: no step of an addJob call or of a pass raises the retries of a job
\* that stays in the queue (a step that removes no job leaves every queued
\* job at its position).
C11_RetriesNeverIncrease ==
  [][Len(Queue') >= Len(Queue) =>
       \A i \in 1..Len(Queue) : Queue'[i].retries <= Queue[i].retries]_vars

\* C12: every step keeps the queue order: the jobs stay where they are, or
\* one job is appended at the tail, or one job is taken out and the others
\* close up in order; a job whose dispatch failed with retries left is still
\* at the position at which it was dispatched.
C12_OrderPreserved ==
  [][/\ \/ /\ Len(Queue') = Len(Queue)
           /\ Ids(Queue') = Ids(Queue)
        \/ /\ Len(Queue') = Len(Queue) + 1
           /\ SubSeq(Queue', 1, Len(Queue)) = Queue
        \/ /\ Len(Queue') = Len(Queue) - 1
           /\ \E i \in 1..Len(Queue) : Queue' = Splice(Queue, i)
     /\ \A p \in Passes :
          Retained(p) => /\ index[p] < Len(Queue')
                         /\ Queue'[index[p] + 1].id = disp[p].id]_vars

\* C12 witness: the head failed with retries left and is still the head, one
\* less retry, with another job behind it.
C12_Witness ==
  \E p \in Passes :
     /\ pc[p] = "updated"
     /\ index[p] = 0
     /\ Len(Queue) = 2
     /\ Queue[1].id = disp[p].id
     /\ Queue[1].retries = disp[p].retries - 1
     /\ Queue[2].id # disp[p].id

\* C13: with addJob calls made at any point of the one pass in progress, a
\* job leaves the queue only in the dequeueJob that follows its own dispatch
\* by that pass, and a job pushed by addJob lands at the tail with the queued
\* jobs untouched.
Pushed(a) == apc[a] = "hasJob" /\ apc'[a] = "idle" /\ ~aexists[a]
Dequeued(p) ==
  pc[p] \in {"dequeueOk", "dequeueFail"} /\ pc'[p] \in {"dequeuedOk", "dequeuedFail"}

C13_NoJobLostToRace ==
  [][/\ \A i \in 1..Len(Queue) :
          ~InQueue(Queue', Queue[i].id) =>
             \E p \in Passes : Dequeued(p) /\ disp[p].id = Queue[i].id
     /\ \A a \in Producers :
          Pushed(a) => Queue' = Append(Queue, acall[a].job)]_vars

\* C13 witness: a job pushed while the pass awaited a dispatch is in the
\* queue, and the pass has since removed the job it had dispatched.
C13_Witness ==
  \E p \in Passes :
     /\ pc[p] = "dequeuedOk"
     /\ Len(snap) = 1
     /\ snap[1] = disp[p].id
     /\ Len(Queue) = 1
     /\ Queue[1].id # disp[p].id

\* C14: a pass dispatches only jobs that were in the queue when it took its
\* view of the queue.
C14_DispatchesOnlyItsView ==
  \A i \in 1..Len(visited) : \E j \in 1..Len(snap) : visited[i] = snap[j]

\* C15: when the timer keeps firing, every dispatch returns and the producers
\* stop, every job that is in the queue eventually is no longer in it.
JobIds == {GenerateJobId(ETA_LIDER_TASK, jobData) : jobData \in JobDatas}

C15_EventualResolution ==
  \A id \in JobIds : InQueue(Queue, id) ~> ~InQueue(Queue, id)

\* C15 witness: the producers have stopped and a job is still queued.
C15_Witness == addsDone = MaxAdds /\ NoAddPending /\ Len(Queue) = MaxQueue

\* The content of a queue, empty when the name was never referenced.
QueueOf(qs, queueName) == IF queueName \in DOMAIN qs THEN qs[queueName] ELSE <<>>
OthersUnchanged(queueName) ==
  \A n \in DOMAIN queues \ {queueName} : queues'[n] = queues[n]
NoDuplicate(queue) ==
  \A i, j \in 1..Len(queue) : i # j => queue[i].id # queue[j].id

\* C16: dequeueJob(q, id) takes one job with that id out of q and leaves the
\* others in order; it changes nothing when no job has that id; a second
\* call right after the first changes nothing more.
C16_DequeueJobIdempotent ==
  [][\A queueName \in QueueNames : \A id \in StoreIds(queueName) :
       (ret'.op = "dequeueJob" /\ StoreDequeueJob(queueName, id)) =>
          LET old == QueueOf(queues, queueName)
              new == queues'[queueName]
          IN /\ InQueue(old, id) =>
                  \E i \in 1..Len(old) :
                     /\ old[i].id = id
                     /\ Len(new) = Len(old) - 1
                     /\ \A k \in 1..Len(new) :
                          new[k] = IF k < i THEN old[k] ELSE old[k + 1]
             /\ ~InQueue(old, id) => new = old
             /\ OthersUnchanged(queueName)
             /\ DequeueJob(queues', queueName, id) = queues']_vars

\* C17: updateJob(q, id, fields) returns true exactly when q holds a job with
\* that id; then one job with that id has the given fields overwritten and
\* its other fields kept, at its position, and no other job changes; when it
\* returns false the queue is as it was.
C17_UpdateJobFrame ==
  [][\A queueName \in QueueNames : \A id \in StoreIds(queueName) :
       \A updatedJobData \in UpdateFields(queueName) :
          (ret'.op = "updateJob"
             /\ StoreUpdateJob(queueName, id, updatedJobData)) =>
             LET old == QueueOf(queues, queueName)
                 new == queues'[queueName]
             IN /\ ret'.kind = IF InQueue(old, id) THEN "true" ELSE "false"
                /\ Len(new) = Len(old)
                /\ OthersUnchanged(queueName)
                /\ ret'.kind = "false" => new = old
                /\ ret'.kind = "true" =>
                     \E i \in 1..Len(old) :
                        /\ old[i].id = id
                        /\ DOMAIN new[i] = DOMAIN old[i]
                        /\ \A f \in DOMAIN old[i] :
                             new[i][f] = IF f \in DOMAIN updatedJobData
                                         THEN updatedJobData[f] ELSE old[i][f]
                        /\ \A k \in 1..Len(old) : k # i => new[k] = old[k]]_vars

\* C17 witness: updateJob found its job, the second of two, and overwrote
\* its retries; the head is the job that addJob built.
C17_Witness ==
  /\ ret.op = "updateJob"
  /\ ret.kind = "true"
  /\ Len(Queue) = 2
  /\ \E jobData \in JobDatas :
       Queue[1] = CreateJob(ETA_LIDER_TASK, jobData, 0, DefaultDelay, 0)
  /\ Queue[2].retries = MaxRetries
  /\ Queue[2].id # Queue[1].id

\* C18: no call of addJob, dequeueJob or updateJob, whatever fields updateJob
\* is given, takes a store without duplicate ids to one with duplicate ids,
\* or raises the retries of a job that stays queued.
C18_StoreKeepsInvariants ==
  [][(\A n \in DOMAIN queues : NoDuplicate(queues[n])) =>
       /\ \A n \in DOMAIN queues' : NoDuplicate(queues'[n])
       /\ \A n \in DOMAIN queues :
            Len(queues'[n]) >= Len(queues[n]) =>
               \A i \in 1..Len(queues[n]) :
                  queues'[n][i].retries <= queues[n][i].retries]_vars

\* C19: the set of queue names only grows; a call of getQueue, addJob,
\* hasJob, getNextJob, dequeueJob or updateJob that names a queue leaves that
\* queue in the store, empty if the name was unknown; the queue that loses its
\* last job stays in the store.
References(queueName) ==
  \/ StoreGetQueue(queueName)
  \/ StoreGetNextJob(queueName)
  \/ \E a \in Producers :
        apc[a] = "idle" /\ apc'[a] = "hasJob" /\ acall'[a].queueName = queueName
  \/ \E id \in StoreIds(queueName) :
        \/ StoreHasJob(queueName, id)
        \/ StoreDequeueJob(queueName, id)
        \/ \E updatedJobData \in UpdateFields(queueName) :
              StoreUpdateJob(queueName, id, updatedJobData)

C20_FailedAddJobChangesNothing ==
  [][ret'.kind = "threw" /\ StoreAddJobThrows =>
       queues' = queues /\ UNCHANGED <<passVars, addVars>>]_vars

\* C20 witness: addJob has thrown; one queue holds a job and the other name
\* is still unknown to the store.
C20_Witness ==
  /\ ret.kind = "threw"
  /\ DOMAIN queues = {ETA_LIDER_TASK}
  /\ Len(Queue) = 1

\* C21: the id returned for a pair is the id of that pair and of no other
\* pair: any pair that differs in queue name, process, target domain, MAC
\* address, other payload content or property order has another id.
C21_IdInjective ==
  (arg.fn = "generateJobId" /\ out.kind = "return") =>
     \A other \in IdArgs :
        (GenerateJobId(other.queueName, other.jobData) = out.value) <=> (other = arg)

\* C21 witness: the id of a pair whose queue name ends in "-GET" has been
\* computed; the pair with the bare queue name and process "GET-GET" differs
\* from it only in where the "-" of the template falls.
C21_Witness ==
  /\ arg.fn = "generateJobId"
  /\ out.kind = "return"
  /\ arg.queueName = ETA_LIDER_TASK \o "-GET"
  /\ arg.jobData.process = "GET"

\* C23: the step of a pass that completes the outcome of a dispatch writes
\* one outcome message, and the message names the id of the job that was
\* dispatched.
NamesJob(event, job) == "jobId" \in DOMAIN event /\ event.jobId = job.id

C23_OutcomeEventNamesJob ==
  [][\A p \in Passes :
       /\ (pc[p] = "dequeuedOk" /\ pc'[p] # "dequeuedOk") =>
             (index[p] < Len(Queue) /\ NamesJob(SuccessLog(p), disp[p]))
       /\ (pc[p] = "updated" /\ pc'[p] # "updated") =>
             (index[p] < Len(Queue) /\ NamesJob(RetryLog(p), disp[p]))
       /\ (pc[p] = "dispatch" /\ pc'[p] = "dequeueFail") =>
             NamesJob(DroppedLog(p), disp[p])]_vars

\* C24: a pass has one dispatch in flight at a time: while it awaits a
\* dispatch its job and index stay as they are, and a dispatch starts only at
\* the start of the pass or after the outcome of the previous job was applied
\* to the store: the dequeueJob of that job has run, or its retries were
\* lowered in the queue.
C24_OneDispatchAtATime ==
  [][\A p \in Passes :
       /\ (pc[p] = "dispatch" /\ pc'[p] = "dispatch") =>
             (disp'[p] = disp[p] /\ index'[p] = index[p])
       /\ Dispatched(p) =>
             pc[p] \in {"getQueue", "dequeuedOk", "updated", "dequeuedFail"}
       /\ (pc[p] # pc'[p] /\ pc'[p] \in {"dequeuedOk", "dequeuedFail"}) =>
             /\ pc[p] \in {"dequeueOk", "dequeueFail"}
             /\ ~InQueue(Queue', jobId[p])
       /\ (pc[p] # pc'[p] /\ pc'[p] = "updated") =>
             /\ pc[p] = "dispatch"
             /\ Queue'[index[p] + 1].retries = Queue[index[p] + 1].retries - 1]_vars

\* C24 witness: the second dispatch of a pass is in flight; the first job
\* was retained and is in the queue with one retry less.
C24_Witness ==
  \E p \in Passes :
     /\ pc[p] = "dispatch"
     /\ index[p] = 1
     /\ Len(visited) = 2
     /\ retained
     /\ Queue[1].id = visited[1]
     /\ Queue[1].retries = 0

\* C27: a pass that finds the queue empty after its getQueue returns at
\* once: it ends normally with no job handed to an external operation and the
\* store as it was; the getQueue of a starting pass changes the content of no
\* queue (an unknown name gets an empty queue).
C27_EmptyPassIsNoOp ==
  [][\A p \in Passes :
       /\ (pc[p] = "getQueue" /\ pc'[p] # "getQueue" /\ Len(Queue) = 0) =>
             /\ pc'[p] = "idle"
             /\ disp'[p] = NoJob
             /\ queues' = queues
       /\ Started(p) =>
             \A n \in DOMAIN queues' : queues'[n] = QueueOf(queues, n)]_vars

\* C27 witness: the job was dropped by the pass that found it at retries 0,
\* and the pass after that one, which found the queue empty, has ended.
C27_Witness ==
  /\ NoPassActive
  /\ passesDone = DefaultRetries + 2
  /\ Queue = <<>>
  /\ \A p \in Passes : pc[p] = "idle"

\* C28: in an undisturbed pass the dequeueJob that follows a successful
\* dispatch of J takes J out of the queue and leaves every other job as it
\* was, in order; a pass that started on one job and dispatched it with
\* success ends with the queue empty.
C28_SuccessRemovesTheJob ==
  [][\A p \in Passes :
       /\ (pc[p] = "dequeueOk" /\ pc'[p] = "dequeuedOk") =>
             /\ ~InQueue(Queue', disp[p].id)
             /\ \E i \in 1..Len(Queue) :
                   /\ Queue[i] = disp[p]
                   /\ Len(Queue') = Len(Queue) - 1
                   /\ \A k \in 1..Len(Queue') :
                        Queue'[k] = IF k < i THEN Queue[k] ELSE Queue[k + 1]
       /\ (pc[p] = "dequeuedOk" /\ Ended(p) /\ Len(snap) = 1) =>
             Len(Queue') = 0]_vars

\* C28 witness: the head of two jobs was dispatched with success and
\* removed; the other job is the whole queue.
C28_Witness ==
  \E p \in Passes :
     /\ pc[p] = "dequeuedOk"
     /\ Len(snap) = 2
     /\ disp[p].id = snap[1]
     /\ Ids(Queue) = <<snap[2]>>

\* C30: in every interleaving, a step that keeps the jobs of the queue in
\* place and changes the retries of one of them is the failure of a dispatch
\* of that same job, and lowers them by 1.
C30_RetriesLoweredOnlyByOwnFailure ==
  [][\A i \in 1..Len(Queue) :
       (Ids(Queue') = Ids(Queue) /\ Queue'[i].retries # Queue[i].retries) =>
          \E p \in Passes :
             /\ Retained(p)
             /\ disp[p].id = Queue[i].id
             /\ Queue'[i].retries = Queue[i].retries - 1]_vars

\* C29: for every queued job the routing makes exactly one call of the
\* external service: the read operation, given the MAC address and the target
\* domain of the job, exactly when process is "GET"; otherwise the ETA update
\* exactly when the target domain is ETA; otherwise the Lider update.
C29_RoutingTotal ==
  (arg.fn = "route" /\ out.kind = "return") =>
     LET payload == arg.job.data
         calls == out.value
     IN /\ Len(calls) = 1
        /\ calls[1].op \in {"getSchoolByMacAddress", "updateEtaSchoolInfoByMacAddress",
                            "updateLiderSchoolByMacAddress"}
        /\ calls[1].op = "getSchoolByMacAddress" <=> payload.process = "GET"
        /\ calls[1].op = "getSchoolByMacAddress" =>
              calls[1].args = <<payload.data.macAddress, payload.targetRequestDomain>>
        /\ payload.process # "GET" =>
              (calls[1].op = "updateEtaSchoolInfoByMacAddress"
                 <=> payload.targetRequestDomain = PlatformTypeETA)

\* C29 witness: a job whose process is "get" and whose target domain is
\* neither ETA nor LIDER was routed, to the Lider update.
C29_Witness ==
  /\ arg.fn = "route"
  /\ out.kind = "return"
  /\ arg.job.data.process = "get"
  /\ arg.job.data.targetRequestDomain = "OTHER"
  /\ out.value[1].op = "updateLiderSchoolByMacAddress"

\* C25: a header made of "Basic " and the base64 encoding of username ":"
\* password, both non-empty, is decoded to that username and that password.
C25_BasicAuthRoundTrip ==
  (arg.fn = "basicAuthDecoder" /\ "username" \in DOMAIN arg /\ out # NoOut) =>
     /\ out.kind = "return"
     /\ out.value = [username |-> arg.username, password |-> arg.password]

\* The parts of a decoded credential: the username is the text before the
\* first ":", the password the text between the first ":" and the next one
\* (or the end); the password is missing when there is no ":".
Colons(text) == {i \in 1..Len(text) : text[i] = ":"}
FirstColon(text) == CHOOSE i \in Colons(text) : \A j \in Colons(text) : i <= j
UsernamePart(text) ==
  IF Colons(text) = {} THEN text ELSE SubSeq(text, 1, FirstColon(text) - 1)
PasswordPart(text) ==
  LET rest == SubSeq(text, FirstColon(text) + 1, Len(text))
  IN IF Colons(rest) = {} THEN rest ELSE SubSeq(rest, 1, FirstColon(rest) - 1)
Blank(text) == \A i \in 1..Len(text) : text[i] \in WhiteSpace
OutsideBase64(text) == \E i \in 1..Len(text) : ~IsBase64Text(<<text[i]>>)
BlankCredential(remainder) ==
  LET decoded == Utf8String(Base64Decode(remainder))
  IN \/ Blank(UsernamePart(decoded))
     \/ Colons(decoded) = {}
     \/ Blank(PasswordPart(decoded))
Throws401 == out.kind = "throw" /\ out.status = 401
Rejects(remainder) ==
  /\ OutsideBase64(remainder) => Throws401
  /\ (~OutsideBase64(remainder) /\ (remainder = <<>> \/ BlankCredential(remainder)))
       => Throws401
  /\ out.kind = "return" =>
       (~Blank(out.value.username) /\ ~Blank(out.value.password))

\* C26 as claimed: for a header that starts with "Basic ", a remainder with a
\* character outside the base64 alphabet, or a decoded username or password
\* that is missing or blank, makes basicAuthDecoder throw the 401, and a
\* returned pair has both parts non-blank.
C26_RejectsMalformed ==
  (arg.fn = "basicAuthDecoder" /\ out # NoOut /\ StartsWith(arg.input, BasicPrefix)) =>
     Rejects(Slice(arg.input, 6))

\* C26 amended: the same, of the remainder with the white space around it
\* removed.
C26_RejectsMalformedTrimmed ==
  (arg.fn = "basicAuthDecoder" /\ out # NoOut /\ StartsWith(arg.input, BasicPrefix)) =>
     Rejects(Trim(Slice(arg.input, 6)))

\* C26 witness: the remainder is a space and the encoding of "a: " (the
\* password is blank), and the decoder has thrown the 401.
C26_Witness ==
  /\ arg.fn = "basicAuthDecoder"
  /\ arg.input = BasicPrefix \o <<" ">> \o Base64Encode(Utf8Bytes(<<"a", ":", " ">>))
  /\ Throws401

C31_RetriesNeverNegative ==
  \A n \in DOMAIN queues : \A i \in 1..Len(queues[n]) : queues[n][i].retries >= 0

\* C31 witness: two passes overlap; one has failed on a job with one retry
\* left, which now has none, and the other still awaits a dispatch.
C31_Witness ==
  \E p, q \in Passes :
     /\ pc[p] = "updated"
     /\ pc[q] = "dispatch"
     /\ disp[p].retries = 1
     /\ index[p] < Len(Queue)
     /\ Queue[index[p] + 1].id = disp[p].id
     /\ Queue[index[p] + 1].retries = 0

\* C32: with non-overlapping passes a queued job that was enqueued with
\* retries n has been dispatched at most n + 1 times since, and the failure
\* of its (n + 1)-th dispatch takes it out of the queue in the same pass.
C32_BoundedAttempts ==
  [][/\ \A id \in JobIds :
          InQueue(Queue', id) => twin'.attempts[id] <= twin'.given[id] + 1
     /\ \A p \in Passes :
          /\ (FailedDispatch(p)
                /\ twin.attempts[disp[p].id] = twin.given[disp[p].id] + 1) =>
                (pc'[p] = "dequeueFail" /\ jobId'[p] = disp[p].id)
          /\ (pc[p] = "dequeueFail" /\ pc'[p] = "dequeuedFail") =>
                ~InQueue(Queue', jobId[p])]_vars

\* C32 witness: the job came with MaxRetries retries, every one of its
\* MaxRetries + 1 dispatches failed, and the pass is about to dequeue it.
C32_Witness ==
  \E p \in Passes :
     /\ pc[p] = "dequeueFail"
     /\ jobId[p] = disp[p].id
     /\ twin.given[jobId[p]] = MaxRetries
     /\ twin.attempts[jobId[p]] = MaxRetries + 1

\* C33: an undisturbed pass that finds the queue non-empty dispatches the
\* head first, and when the pass ends that job has left the queue or is
\* queued with one retry less than at the start of the pass.
C33_HeadMakesProgress ==
  [][\A p \in Passes :
       /\ (pc[p] = "getQueue" /\ pc'[p] # "getQueue" /\ Len(Queue) > 0) =>
             (pc'[p] = "dispatch" /\ disp'[p] = Queue[1])
       /\ (Ended(p) /\ twin.start # <<>>) =>
             LET head == twin.start[1]
             IN /\ visited # <<>>
                /\ visited[1] = head.id
                /\ \/ ~InQueue(Queue', head.id)
                   \/ \E i \in 1..Len(Queue') :
                         /\ Queue'[i].id = head.id
                         /\ Queue'[i].retries = head.retries - 1]_vars

\* C33 witness: the pass started on two jobs, the dispatch of the head failed
\* with a retry left, and the pass is over: the head is queued with one
\* retry less.
C33_Witness ==
  /\ NoPassActive
  /\ Len(Queue) = 2
  /\ twin.given[Queue[1].id] = 1
  /\ twin.attempts[Queue[1].id] = 1
  /\ Queue[1].retries = 0
  /\ twin.attempts[Queue[2].id] = 1

\* C34: when an undisturbed pass ends, every job it found at its start and
\* did not dispatch is in the queue exactly as it was; and every step of the
\* pass leaves in the queue, as they are, the jobs other than the one it has
\* dispatched.
C34_PassChangesOnlyDispatched ==
  [][\A p \in Passes :
       /\ Ended(p) =>
            \A i \in 1..Len(twin.start) :
               (\A k \in 1..Len(visited) : visited[k] # twin.start[i].id) =>
                  \E j \in 1..Len(Queue') : Queue'[j] = twin.start[i]
       /\ (Active(p) /\ pc'[p] # pc[p]) =>
            \A i \in 1..Len(Queue) :
               Queue[i].id # disp[p].id =>
                  \E j \in 1..Len(Queue') : Queue'[j] = Queue[i]]_vars

\* C34 witness: the pass found two jobs, dispatched the head with success
\* and removed it; the second job, never dispatched, is the whole queue and
\* the pass is at its last step.
C34_Witness ==
  \E p \in Passes :
     /\ pc[p] = "dequeuedOk"
     /\ index[p] = 0
     /\ Len(twin.start) = 2
     /\ visited = <<twin.start[1].id>>
     /\ Queue = <<twin.start[2]>>
     /\ twin.attempts[twin.start[2].id] = 0

\* C35: an addJob call for a job that was queued before and has left the
\* queue finds no duplicate, and appends the job it built: the same id, the
\* retries and the delay passed to this call.
C35_DedupOnlyWhilePending ==
  [][\A a \in Producers :
       /\ (apc[a] = "idle" /\ apc'[a] = "hasJob"
             /\ acall'[a].job.id \in twin.gone
             /\ ~InQueue(Queue, acall'[a].job.id)) =>
             ~aexists'[a]
       /\ (apc[a] = "hasJob" /\ apc'[a] = "idle" /\ ~aexists[a]
             /\ acall[a].job.id \in twin.gone) =>
             Queue' = Append(Queue, acall[a].job)]_vars

\* C35 witness: a job that had left the queue is queued again, with the
\* retries of the new call and no dispatch yet.
C35_Witness ==
  /\ NoAddPending
  /\ \E i \in 1..Len(Queue) :
       /\ Queue[i].id \in twin.gone
       /\ Queue[i].retries = MaxRetries
       /\ twin.given[Queue[i].id] = MaxRetries
       /\ twin.attempts[Queue[i].id] = 0

\* C36: a call on one queue name leaves the content of every other queue as
\* it was (dequeueJob and updateJob on any reachable store, addJob at both of
\* its steps, so no step changes two queues); addJob finds a duplicate
\* exactly when the queue it names holds the id, whatever the other queue
\* holds; a step of a pass leaves the second queue as it was and dispatches a
\* job of the well-known queue.
Other(queueName) == QueueNames \ {queueName}
SameContent(qs, queueName) == QueueOf(qs, queueName) = QueueOf(queues, queueName)

C36_QueuesIndependent ==
  [][/\ \A q \in QueueNames : \A n \in Other(q) : \A id \in StoreIds(q) :
          /\ SameContent(DequeueJob(queues, q, id), n)
          /\ \A updatedJobData \in RetriesFields :
                SameContent(UpdateJob(queues, q, id, updatedJobData), n)
     /\ \A a \in Producers :
          /\ apc[a] = "idle" /\ apc'[a] = "hasJob" =>
                /\ \A n \in QueueNames : SameContent(queues', n)
                /\ aexists'[a] = InQueue(QueueOf(queues, acall'[a].queueName),
                                         acall'[a].job.id)
          /\ apc[a] = "hasJob" /\ apc'[a] = "idle" =>
                \A n \in Other(acall[a].queueName) : SameContent(queues', n)
     /\ \E q \in QueueNames : \A n \in Other(q) : SameContent(queues', n)
     /\ \A p \in Passes :
          /\ pc'[p] # pc[p] => SameContent(queues', OtherTask)
          /\ Dispatched(p) =>
                /\ \E i \in 1..Len(Queue) : Queue[i] = disp'[p]
                /\ ~InQueue(QueueOf(queues, OtherTask), disp'[p].id)]_vars

\* C36 witness: a pass has dispatched a job and waits for the outcome while
\* the second queue holds a job with the same payload, and the last call
\* updated a job.
C36_Witness ==
  \E p \in Passes :
    /\ pc[p] = "dispatch"
    /\ InQueue(Queue, disp[p].id)
    /\ \E j \in 1..Len(QueueOf(queues, OtherTask)) :
         /\ queues[OtherTask][j].data = disp[p].data
         /\ queues[OtherTask][j].retries # disp[p].retries
    /\ ret.op = "updateJob" /\ ret.kind = "true"

\* C37: on every store reached, hasJob(q, id) is true exactly when q holds a
\* job with that id, and getNextJob(q) is the job at the head of q, or null
\* when q is empty; a call of hasJob or getNextJob returns one of these
\* answers and leaves every queue with the same jobs in the same order.
HeadOrNull(queue) == IF Len(queue) = 0 THEN <<>> ELSE <<queue[1]>>

C37_ReadsArePure ==
  [][/\ \A q \in QueueNames :
          /\ GetNextJob(queues, q) = HeadOrNull(QueueOf(queues, q))
          /\ \A id \in StoreIds(q) :
                HasJob(queues, q, id) = InQueue(QueueOf(queues, q), id)
     /\ ret'.op \in {"hasJob", "getNextJob"} =>
          \A n \in QueueNames : SameContent(queues', n)
     /\ ret'.op = "hasJob" =>
          \E q \in QueueNames : \E id \in StoreIds(q) :
             ret'.kind = IF InQueue(QueueOf(queues, q), id) THEN "true" ELSE "false"
     /\ ret'.op = "getNextJob" =>
          \E q \in QueueNames :
             /\ ret'.jobs = HeadOrNull(QueueOf(queues, q))
             /\ ret'.kind = IF Len(QueueOf(queues, q)) = 0 THEN "null" ELSE "job"]_vars

\* C37 witness: getNextJob has returned the head of a queue of two jobs, and
\* both jobs are still there.
C37_Witness ==
  /\ ret.op = "getNextJob" /\ ret.kind = "job"
  /\ \E q \in QueueNames :
       /\ Len(QueueOf(queues, q)) = 2
       /\ ret.jobs = <<queues[q][1]>>
       /\ queues[q][2] # queues[q][1]

====
